---- MODULE Spec2Model ----
(***************************************************************************)
(* MD_CirQueue: a FIFO queue of fixed-size items kept in a circular        *)
(* buffer (src/src/MD_CirQueue.h).  The object is the record Q whose       *)
(* fields are the private fields of the class.  One slot of _itmData holds *)
(* one item (_itmSize bytes copied by memcpy at offset _itmSize * index),  *)
(* so _itmData is a function from slot index to item.                      *)
(***************************************************************************)
EXTENDS Integers, Sequences, FiniteSets, TLC

\* ----------------------------------------------------------------- bounds
MaxQty  == 3            \* largest itmQty of the small instances
MaxItem == 1            \* items (and uninitialised slot contents) are 0..MaxItem
MaxPush == 5            \* push() calls made in a recorded history

\* ------------------------------------------------------ program constants
UINT8_MOD == 256        \* uint8_t fields: arithmetic modulo 2^8
UINT8_MAX == 255        \* the largest itmQty a uint8_t parameter can carry
UINT16_MOD == 65536     \* uint16_t size: arithmetic modulo 2^16
ITEM_SIZE == 4          \* sizeof(uint32_t), the item size of CQ_Test
QUEUE_SIZE == 6         \* the queue size of CQ_Test
EXTRA_PUSHES == 3       \* CQ_Test pushes QUEUE_SIZE+3 items

Items == 0 .. MaxItem
Qtys  == 1 .. MaxQty

VARIABLES
  Q,        \* the MD_CirQueue object
  itm,      \* the caller's destination buffer handed to pop() and peek()
  ret,      \* what the last call returned: "true" "false" "itm" "NULL" "void"
  lastOp,   \* the last method called
  arg,      \* the argument of the last push() or setFullOverwrite()
  policy,   \* the argument of the last setFullOverwrite(), FALSE if none
  pre,      \* Q, itm and the peek observers as they were before the last call
  peekAny,  \* result of the last peek() since the last pop()
  peekSame, \* result of the last peek() since the head item last changed
  pushLog,  \* the items of the push() calls that returned true, in call order
  popLog,   \* the items pop() handed to the caller, in call order
  nPush,    \* number of push() calls made
  nEvict,   \* number of push() calls that found the queue full and overwrote
  cleared,  \* whether clear() was called since construction
  pc,       \* CQ_Test: position in setup()
  i,        \* CQ_Test: the loop variable of the push loop
  extra,    \* CQ_Test: pushes made beyond the queue size
  pushRets, \* CQ_Test: what each push() of the loop returned
  drain,    \* drain loop: the count it started from and the pops it made
  conc,     \* producer and consumer: mode, positions and registers
  heap      \* the block: the bytes malloc() was asked for, the calls made
            \* since a copy first ran outside them, whether its content is
            \* still what the slots were given

callVars == <<Q, itm, ret, lastOp, arg, policy>>
peekVars == <<pre, peekAny, peekSame>>
histVars == <<pushLog, popLog, nPush, nEvict, cleared>>
testVars == <<pc, i, extra, pushRets>>
procVars == <<drain, conc, heap>>
vars == <<callVars, peekVars, histVars, testVars, procVars>>

\* ----------------------------------------------------------- the class
u8(n) == n % UINT8_MOD

\* if (_idx == _itmQty) _idx = 0, after _idx++ on a uint8_t
advance(q, idx) ==
  LET n == u8(idx + 1) IN IF n = q._itmQty THEN 0 ELSE n

\* slip: _itmCount is left out of the chain of assignments
clear_keepCount(q) == [q EXCEPT !._idxPut = 0, !._idxTake = 0]

\* slip: _idxTake is left out of the chain of assignments
clear_keepTake(q) == [q EXCEPT !._idxPut = 0, !._itmCount = 0]

\* slip: clear() puts the overwrite setting back to its default as well
clear_resetsFlag(q) ==
  [q EXCEPT !._idxPut = 0, !._idxTake = 0, !._itmCount = 0,
            !._overwrite = FALSE]

clear(q) == [q EXCEPT !._idxPut = 0, !._idxTake = 0, !._itmCount = 0]

\* slip: _overwrite(true) in the initialiser list
MD_CirQueue_overwriteOn(itmQty, itmSize, mem) ==
  [_itmQty |-> itmQty, _itmSize |-> itmSize, _itmData |-> mem,
   _itmCount |-> 0, _idxPut |-> 0, _idxTake |-> 0, _overwrite |-> TRUE]

\* mem is the content of the block malloc() returns: not initialised
MD_CirQueue(itmQty, itmSize, mem) ==
  clear([_itmQty |-> itmQty, _itmSize |-> itmSize, _itmData |-> mem,
         _itmCount |-> 0, _idxPut |-> 0, _idxTake |-> 0,
         _overwrite |-> FALSE])

isEmpty(q) == q._itmCount = 0

\* slip: ">" where "==" was meant
isFull_greater(q) == q._itmCount # 0 /\ q._itmCount > q._itmQty

\* slip: the "_itmCount != 0" guard is missing
isFull_noZeroGuard(q) == q._itmCount = q._itmQty

isFull(q) == q._itmCount # 0 /\ q._itmCount = q._itmQty

setFullOverwrite(q, b) == [q EXCEPT !._overwrite = b]

\* slip: the index is advanced before the copy is made
pop_copyAfterAdvance(q, dst) ==
  IF isEmpty(q)
  THEN [q |-> q, ret |-> "NULL", itm |-> dst]
  ELSE [q   |-> [q EXCEPT !._idxTake = advance(q, q._idxTake),
                          !._itmCount = u8(q._itmCount - 1)],
        ret |-> "itm",
        itm |-> q._itmData[advance(q, q._idxTake)]]

\* slip: the isEmpty() test is missing
pop_noEmptyCheck(q, dst) ==
  [q   |-> [q EXCEPT !._idxTake = advance(q, q._idxTake),
                     !._itmCount = u8(q._itmCount - 1)],
   ret |-> "itm",
   itm |-> q._itmData[q._idxTake]]

\* slip: _itmCount-- is missing
pop_noCount(q, dst) ==
  IF isEmpty(q)
  THEN [q |-> q, ret |-> "NULL", itm |-> dst]
  ELSE [q   |-> [q EXCEPT !._idxTake = advance(q, q._idxTake)],
        ret |-> "itm",
        itm |-> q._itmData[q._idxTake]]

\* pop(itm): dst is the content of the buffer itm points to before the call;
\* the result carries the object, the returned pointer and the buffer after.
pop(q, dst) ==
  IF isEmpty(q)
  THEN [q |-> q, ret |-> "NULL", itm |-> dst]
  ELSE [q   |-> [q EXCEPT !._idxTake = advance(q, q._idxTake),
                          !._itmCount = u8(q._itmCount - 1)],
        ret |-> "itm",
        itm |-> q._itmData[q._idxTake]]

\* slip: the isEmpty() test is missing
peek_noEmptyCheck(q, dst) ==
  [q |-> q, ret |-> "itm", itm |-> q._itmData[q._idxTake]]

\* slip: the copy is made from the slot at _idxPut
peek_atPut(q, dst) ==
  IF isEmpty(q)
  THEN [q |-> q, ret |-> "NULL", itm |-> dst]
  ELSE [q |-> q, ret |-> "itm", itm |-> q._itmData[q._idxPut]]

\* slip: the body of pop() left as it was copied
peek_destructive(q, dst) ==
  IF isEmpty(q)
  THEN [q |-> q, ret |-> "NULL", itm |-> dst]
  ELSE [q   |-> [q EXCEPT !._idxTake = advance(q, q._idxTake),
                          !._itmCount = u8(q._itmCount - 1)],
        ret |-> "itm",
        itm |-> q._itmData[q._idxTake]]

peek(q, dst) ==
  IF isEmpty(q)
  THEN [q |-> q, ret |-> "NULL", itm |-> dst]
  ELSE [q |-> q, ret |-> "itm", itm |-> q._itmData[q._idxTake]]

\* slip: the memcpy() is missing
saveItem_noCopy(q, x) ==
  [q   |-> [q EXCEPT !._idxPut = advance(q, q._idxPut),
                     !._itmCount = u8(q._itmCount + 1)],
   ret |-> "true"]

\* slip: _idxPut is advanced before the copy is made
saveItem_advanceFirst(q, x) ==
  [q   |-> [q EXCEPT !._itmData[advance(q, q._idxPut)] = x,
                     !._idxPut = advance(q, q._idxPut),
                     !._itmCount = u8(q._itmCount + 1)],
   ret |-> "true"]

\* slip: the item is stored and the put index advanced, the count left alone
saveItem_noCount(q, x) ==
  [q   |-> [q EXCEPT !._itmData[q._idxPut] = x,
                     !._idxPut = advance(q, q._idxPut)],
   ret |-> "true"]

\* "Save item and adjust the tail pointer": the tail of push()
saveItem(q, x) ==
  [q   |-> [q EXCEPT !._itmData[q._idxPut] = x,
                     !._idxPut = advance(q, q._idxPut),
                     !._itmCount = u8(q._itmCount + 1)],
   ret |-> "true"]

\* slip: the oldest item is not popped before the new one is saved
popIntoItself_skip(q) == q

\* pop(_itmData + (_idxTake * _itmSize)): the destination of the copy is the
\* slot being popped, so the buffer after the call is written back to it.
\* (memcpy() of a block onto itself; the queue is full here, so _idxPut is
\* _idxTake and saveItem() rewrites this very slot next.)
popIntoItself(q) ==
  LET r == pop(q, q._itmData[q._idxTake])
  IN  [r.q EXCEPT !._itmData[q._idxTake] = r.itm]

\* slip: _overwrite is not looked at
push_ignoreFlag(q, x) ==
  IF isFull(q)
  THEN saveItem(popIntoItself(q), x)
  ELSE saveItem(q, x)

\* slip: pop(itm), the oldest item popped into the buffer of the new one
push_popIntoItm(q, x) ==
  IF isFull(q)
  THEN IF q._overwrite
       THEN LET r == pop(q, x) IN saveItem(r.q, r.itm)
       ELSE [q |-> q, ret |-> "false"]
  ELSE saveItem(q, x)

push(q, x) ==
  IF isFull(q)
  THEN IF q._overwrite
       THEN saveItem(popIntoItself(q), x)
       ELSE [q |-> q, ret |-> "false"]
  ELSE saveItem(q, x)

\* ------------------------------------------------- calls on the object Q
callPush(x) ==
  LET r == push(Q, x)
  IN  /\ Q' = r.q
      /\ ret' = r.ret
      /\ lastOp' = "push"
      /\ arg' = x
      /\ itm' = itm
      /\ policy' = policy

callPop ==
  LET r == pop(Q, itm)
  IN  /\ Q' = r.q
      /\ ret' = r.ret
      /\ itm' = r.itm
      /\ lastOp' = "pop"
      /\ UNCHANGED <<arg, policy>>

callPeek ==
  LET r == peek(Q, itm)
  IN  /\ Q' = r.q
      /\ ret' = r.ret
      /\ itm' = r.itm
      /\ lastOp' = "peek"
      /\ UNCHANGED <<arg, policy>>

callClear ==
  /\ Q' = clear(Q)
  /\ ret' = "void"
  /\ lastOp' = "clear"
  /\ UNCHANGED <<itm, arg, policy>>

callSetFullOverwrite(b) ==
  /\ Q' = setFullOverwrite(Q, b)
  /\ ret' = "void"
  /\ lastOp' = "setFullOverwrite"
  /\ arg' = IF b THEN 1 ELSE 0
  /\ policy' = b
  /\ itm' = itm

\* ------------------------------------------- observers of the peek results
\* ret "none": no peek() call to compare with; gap: whether a call other than
\* peek() was made since that peek()
NoPeek == [ret |-> "none", val |-> 0, gap |-> FALSE]

\* what a peek() call handed back: the pointer and, through it, the item
seen(r, v) == [ret |-> r, val |-> IF r = "itm" THEN v ELSE 0, gap |-> FALSE]

later(p) == IF p.ret = "none" THEN p ELSE [p EXCEPT !.gap = TRUE]

snapshot == [Q |-> Q, itm |-> itm, peekAny |-> peekAny, peekSame |-> peekSame]

histIdle ==
  /\ pushLog = <<>>
  /\ popLog = <<>>
  /\ nPush = 0
  /\ nEvict = 0
  /\ cleared = FALSE

testIdle ==
  /\ pc = "idle"
  /\ i = 0
  /\ extra = 0
  /\ pushRets = <<>>

NoDrain == [from |-> 0, pops |-> 0]

NoConc == [mode |-> "none"]

NoHeap == [block |-> 0, after |-> 0, wild |-> FALSE]

procIdle ==
  /\ drain = NoDrain
  /\ conc = NoConc
  /\ heap = NoHeap

\* ------------------------------------------------------------------ Spec
\* Any sequence of calls on a queue of 1..MaxQty items.
Init ==
  /\ \E n \in Qtys : \E mem \in [0 .. n - 1 -> Items] :
       Q = MD_CirQueue(n, ITEM_SIZE, mem)
  /\ itm \in Items
  /\ ret = "void"
  /\ lastOp = "new"
  /\ arg = 0
  /\ policy = FALSE
  /\ peekAny = NoPeek
  /\ peekSame = NoPeek
  /\ pre = snapshot
  /\ histIdle
  /\ procIdle
  /\ testIdle

Push(x) ==
  /\ callPush(x)
  /\ pre' = snapshot
  /\ peekAny' = later(peekAny)
  /\ peekSame' = IF isEmpty(Q) \/ (isFull(Q) /\ Q._overwrite)
                 THEN NoPeek ELSE later(peekSame)
  /\ UNCHANGED <<histVars, testVars, procVars>>

Pop ==
  /\ callPop
  /\ pre' = snapshot
  /\ peekAny' = NoPeek
  /\ peekSame' = NoPeek
  /\ UNCHANGED <<histVars, testVars, procVars>>

Peek ==
  /\ callPeek
  /\ pre' = snapshot
  /\ peekAny' = seen(ret', itm')
  /\ peekSame' = seen(ret', itm')
  /\ UNCHANGED <<histVars, testVars, procVars>>

Clear ==
  /\ callClear
  /\ pre' = snapshot
  /\ peekAny' = later(peekAny)
  /\ peekSame' = NoPeek
  /\ UNCHANGED <<histVars, testVars, procVars>>

SetFullOverwrite(b) ==
  /\ callSetFullOverwrite(b)
  /\ pre' = snapshot
  /\ peekAny' = later(peekAny)
  /\ peekSame' = later(peekSame)
  /\ UNCHANGED <<histVars, testVars, procVars>>

Next ==
  \/ \E x \in Items : Push(x)
  \/ Pop
  \/ Peek
  \/ Clear
  \/ \E b \in BOOLEAN : SetFullOverwrite(b)

Spec == Init /\ [][Next]_vars

\* the live window: the _itmCount slots from _idxTake on, oldest first
content(q) ==
  [k \in 1 .. q._itmCount |-> q._itmData[(q._idxTake + k - 1) % q._itmQty]]

\* C4: a push() that finds the queue full with overwrite off returns false and
\* leaves every field of the object, the stored slots included, as it was.
C4_RejectedPushMutatesNothing ==
  (lastOp = "push" /\ isFull(pre.Q) /\ ~pre.Q._overwrite)
    => (ret = "false" /\ Q = pre.Q)

C4_Witness ==
  /\ lastOp = "push" /\ ret = "false"
  /\ isFull(pre.Q) /\ ~pre.Q._overwrite
  /\ arg # pre.Q._itmData[pre.Q._idxPut]

\* C5: a push() of x that finds the queue full with overwrite on returns true,
\* keeps the count at the capacity, moves both indices one slot on (modulo the
\* capacity) and turns the content a1 a2 .. aC into a2 .. aC x.
C5_OverwritePushSlidesWindow ==
  (lastOp = "push" /\ isFull(pre.Q) /\ pre.Q._overwrite)
    => /\ ret = "true"
       /\ Q._itmCount = Q._itmQty
       /\ Q._idxTake = (pre.Q._idxTake + 1) % Q._itmQty
       /\ Q._idxPut = (pre.Q._idxPut + 1) % Q._itmQty
       /\ content(Q) = Tail(content(pre.Q)) \o <<arg>>

C5_Witness ==
  /\ lastOp = "push" /\ ret = "true"
  /\ isFull(pre.Q) /\ pre.Q._overwrite
  /\ Q._itmQty >= 2
  /\ pre.Q._idxTake = Q._itmQty - 1
  /\ content(pre.Q)[1] # content(pre.Q)[2]

\* C6: pop() and peek() on an empty queue return NULL, copy nothing into the
\* caller's buffer and leave the object as it was.
C6_EmptyPopPeekNoValue ==
  (lastOp \in {"pop", "peek"} /\ isEmpty(pre.Q))
    => (ret = "NULL" /\ itm = pre.itm /\ Q = pre.Q)

C6_Witness ==
  /\ lastOp \in {"pop", "peek"} /\ ret = "NULL"
  /\ isEmpty(pre.Q)
  /\ itm # Q._itmData[Q._idxTake]

\* C7: peek() on a non-empty queue leaves the object as it was and hands back
\* the item that a pop() made right after it hands back.
C7_PeekReadsWhatPopReturns ==
  (lastOp = "peek" /\ ~isEmpty(pre.Q))
    => /\ ret = "itm"
       /\ Q = pre.Q
       /\ pop(Q, pre.itm).ret = "itm"
       /\ pop(Q, pre.itm).itm = itm

C7_Witness ==
  /\ lastOp = "peek" /\ ret = "itm"
  /\ ~isEmpty(pre.Q)
  /\ itm # pre.itm
  /\ Q._idxTake # 0

\* C8 as stated: two peek() calls with no pop() between them hand back the
\* same result, whatever other calls are made between them, and peek() leaves
\* the count as it was.
C8_PeekStableWithoutPop ==
  (lastOp = "peek" /\ pre.peekAny.ret # "none")
    => /\ ret = pre.peekAny.ret
       /\ (ret = "itm" => itm = pre.peekAny.val)
       /\ Q._itmCount = pre.Q._itmCount

\* C8 amended: two peek() calls hand back the same result when between them
\* there is no pop(), no clear(), no push() onto an empty queue and no push()
\* that overwrites the oldest item of a full queue (other push() calls and
\* setFullOverwrite() may occur), and no peek() changes the count.
C8_PeekStableWhileHeadKept ==
  /\ (lastOp = "peek" /\ pre.peekSame.ret # "none")
       => /\ ret = pre.peekSame.ret
          /\ (ret = "itm" => itm = pre.peekSame.val)
  /\ lastOp = "peek" => Q._itmCount = pre.Q._itmCount

C8_Witness ==
  /\ lastOp = "peek" /\ ret = "itm"
  /\ pre.peekSame.ret = "itm" /\ pre.peekSame.gap
  /\ Q._itmCount >= 2
  /\ itm # Q._itmData[Q._idxPut]

\* --------------------------------------------------------------- SpecBig
\* The same calls on queues up to the largest capacity the uint8_t fields
\* allow; one item value, so that only the counters and indices vary.
BigQtys == Qtys \cup {UINT8_MAX}

InitBig ==
  /\ \E n \in BigQtys : Q = MD_CirQueue(n, ITEM_SIZE, [k \in 0 .. n - 1 |-> 0])
  /\ itm = 0
  /\ ret = "void"
  /\ lastOp = "new"
  /\ arg = 0
  /\ policy = FALSE
  /\ peekAny = NoPeek
  /\ peekSame = NoPeek
  /\ pre = snapshot
  /\ histIdle
  /\ procIdle
  /\ testIdle

BigPush == callPush(0) /\ UNCHANGED <<peekVars, histVars, testVars, procVars>>

BigPop == callPop /\ UNCHANGED <<peekVars, histVars, testVars, procVars>>

BigPeek == callPeek /\ UNCHANGED <<peekVars, histVars, testVars, procVars>>

BigClear == callClear /\ UNCHANGED <<peekVars, histVars, testVars, procVars>>

BigSetFullOverwrite(b) ==
  callSetFullOverwrite(b) /\ UNCHANGED <<peekVars, histVars, testVars, procVars>>

NextBig ==
  \/ BigPush
  \/ BigPop
  \/ BigPeek
  \/ BigClear
  \/ \E b \in BOOLEAN : BigSetFullOverwrite(b)

SpecBig == InitBig /\ [][NextBig]_vars

\* C9: the count never leaves 0 .. capacity, for capacities up to 255.
C9_CountWithinCapacity ==
  (1 <= Q._itmQty /\ Q._itmQty <= UINT8_MAX)
    => (0 <= Q._itmCount /\ Q._itmCount <= Q._itmQty)

C9_Witness ==
  /\ Q._itmQty = UINT8_MAX /\ Q._itmCount = UINT8_MAX
  /\ lastOp = "push" /\ ret = "true"
  /\ Q._overwrite /\ Q._idxTake = 1

\* -------------------------------------------------------------- SpecHist
\* Any sequence of calls in which the k-th push() call pushes the item k, with
\* a record of the items that went in and of the items that came out.  The
\* block malloc() returns holds one value of Items in every slot.
InitHist ==
  /\ \E n \in Qtys : \E g \in Items :
       Q = MD_CirQueue(n, ITEM_SIZE, [k \in 0 .. n - 1 |-> g])
  /\ itm \in Items
  /\ ret = "void"
  /\ lastOp = "new"
  /\ arg = 0
  /\ policy = FALSE
  /\ peekAny = NoPeek
  /\ peekSame = NoPeek
  /\ pre = snapshot
  /\ histIdle
  /\ procIdle
  /\ testIdle

HistPush ==
  /\ nPush < MaxPush
  /\ callPush(nPush + 1)
  /\ nPush' = nPush + 1
  /\ pushLog' = IF ret' = "true" THEN Append(pushLog, nPush + 1) ELSE pushLog
  /\ nEvict' = IF isFull(Q) /\ ret' = "true" THEN nEvict + 1 ELSE nEvict
  /\ UNCHANGED <<popLog, cleared, peekVars, testVars, procVars>>

HistPop ==
  /\ callPop
  /\ popLog' = IF ret' = "itm" THEN Append(popLog, itm') ELSE popLog
  /\ UNCHANGED <<pushLog, nPush, nEvict, cleared, peekVars, testVars, procVars>>

HistPeek == callPeek /\ UNCHANGED <<histVars, peekVars, testVars, procVars>>

HistClear ==
  /\ callClear
  /\ cleared' = TRUE
  /\ UNCHANGED <<pushLog, popLog, nPush, nEvict, peekVars, testVars, procVars>>

HistSetFullOverwrite(b) ==
  callSetFullOverwrite(b) /\ UNCHANGED <<histVars, peekVars, testVars, procVars>>

NextHist ==
  \/ HistPush
  \/ HistPop
  \/ HistPeek
  \/ HistClear
  \/ \E b \in BOOLEAN : HistSetFullOverwrite(b)

SpecHist == InitHist /\ [][NextHist]_vars

Range(f) == {f[k] : k \in DOMAIN f}

\* C1: pop() hands the items back in the order in which they were pushed: every
\* item popped is one a push() accepted, and an item pushed earlier (a smaller
\* number) is never popped after one pushed later, overwriting or not.
C1_PopsInPushOrder ==
  /\ Range(popLog) \subseteq Range(pushLog)
  /\ \A a, b \in DOMAIN popLog : a < b => popLog[a] < popLog[b]

C1_Witness ==
  /\ Len(popLog) >= 2
  /\ nEvict >= 1
  /\ popLog[1] # 1
  /\ cleared

\* C10 as stated: without clear(), the count is the number of push() calls that
\* returned true minus the number of pop() calls that returned an item,
\* whatever the overwrite setting.
C10_CountIsPushesMinusPops ==
  ~cleared => Q._itmCount = Len(pushLog) - Len(popLog)

\* C10 amended: without clear(), the count is the number of push() calls that
\* returned true, minus the number of pop() calls that returned an item, minus
\* the number of push() calls that returned true on a full queue (each of them
\* overwrote the oldest item).
C10_CountIsPushesMinusPopsMinusEvictions ==
  ~cleared => Q._itmCount = Len(pushLog) - Len(popLog) - nEvict

C10_Witness ==
  /\ ~cleared
  /\ nEvict >= 1
  /\ Len(popLog) >= 1
  /\ Len(pushLog) < nPush
  /\ Q._itmCount >= 1

\* -------------------------------------------------------------- SpecTest
\* setup() of examples/CQ_Test/CQ_Test.ino, for queue sizes 1..MaxQty and the
\* sketch's own, pushing 1..EXTRA_PUSHES items more than the queue holds, with
\* the setFullOverwrite(true) line of the sketch either left out or put in.
TestQtys == Qtys \cup {QUEUE_SIZE}

InitTest ==
  /\ \E n \in TestQtys : \E mem \in [0 .. n - 1 -> Items] :
       Q = MD_CirQueue(n, ITEM_SIZE, mem)
  /\ itm \in Items
  /\ ret = "void"
  /\ lastOp = "new"
  /\ arg = 0
  /\ policy = FALSE
  /\ peekAny = NoPeek
  /\ peekSame = NoPeek
  /\ pre = snapshot
  /\ histIdle
  /\ procIdle
  /\ pc = "begin"
  /\ i = 0
  /\ extra \in 1 .. EXTRA_PUSHES
  /\ pushRets = <<>>

\* Q.begin(); //Q.setFullOverwrite(true);
TestBegin ==
  /\ pc = "begin"
  /\ \/ UNCHANGED callVars
     \/ callSetFullOverwrite(TRUE)
  /\ pc' = "push"
  /\ UNCHANGED <<i, extra, pushRets, histVars, peekVars, procVars>>

\* for (uint32_t i = 0; i < QUEUE_SIZE+3; i++) b = Q.push((uint8_t *)&i);
TestPush ==
  /\ pc = "push"
  /\ i < Q._itmQty + extra
  /\ callPush(i)
  /\ pushRets' = Append(pushRets, ret')
  /\ i' = i + 1
  /\ UNCHANGED <<pc, extra, histVars, peekVars, procVars>>

TestPushed ==
  /\ pc = "push"
  /\ ~(i < Q._itmQty + extra)
  /\ pc' = "drain"
  /\ UNCHANGED <<callVars, i, extra, pushRets, histVars, peekVars, procVars>>

\* while (!Q.isEmpty()) Q.pop((uint8_t *)&n);
TestPop ==
  /\ pc = "drain"
  /\ ~isEmpty(Q)
  /\ callPop
  /\ popLog' = Append(popLog, itm')
  /\ UNCHANGED <<pushLog, nPush, nEvict, cleared, testVars, peekVars, procVars>>

TestDrained ==
  /\ pc = "drain"
  /\ isEmpty(Q)
  /\ pc' = "done"
  /\ UNCHANGED <<callVars, i, extra, pushRets, histVars, peekVars, procVars>>

NextTest ==
  \/ TestBegin
  \/ TestPush
  \/ TestPushed
  \/ TestPop
  \/ TestDrained

SpecTest == InitTest /\ [][NextTest]_vars

\* C2: with overwrite off, of the C+k pushes (k >= 1) into an empty queue of C
\* items the first C return true and the rest false, and draining hands back
\* the first C items pushed, 0 .. C-1 in that order, leaving the queue empty.
C2_RejectKeepsFirstItems ==
  (pc = "done" /\ ~Q._overwrite)
    => /\ pushRets = [k \in 1 .. Q._itmQty + extra |->
                        IF k <= Q._itmQty THEN "true" ELSE "false"]
       /\ popLog = [k \in 1 .. Q._itmQty |-> k - 1]
       /\ isEmpty(Q)

C2_Witness ==
  /\ pc = "done" /\ ~Q._overwrite
  /\ Q._itmQty = QUEUE_SIZE /\ extra = EXTRA_PUSHES
  /\ popLog = <<0, 1, 2, 3, 4, 5>>

\* C3: with overwrite on, every one of the N > C pushes into an empty queue of
\* C items returns true, and draining hands back the last C items pushed,
\* N-C .. N-1 in that order, leaving the queue empty.
C3_OverwriteKeepsLastItems ==
  (pc = "done" /\ Q._overwrite)
    => /\ pushRets = [k \in 1 .. Q._itmQty + extra |-> "true"]
       /\ popLog = [k \in 1 .. Q._itmQty |-> extra + k - 1]
       /\ isEmpty(Q)

C3_Witness ==
  /\ pc = "done" /\ Q._overwrite
  /\ Q._itmQty = QUEUE_SIZE /\ extra = EXTRA_PUSHES
  /\ popLog = <<3, 4, 5, 6, 7, 8>>

\* ------------------------------------------------------------- the block
\* uint16_t size = sizeof(uint8_t) * _itmQty * _itmSize;  malloc(size)
allocSize(itmQty, itmSize) == (itmQty * itmSize) % UINT16_MOD

\* _itmData + (_itmSize * idx): the product is computed in int, which keeps it
\* whole where int has 32 bits and wraps it where int has 16
slotOffsets(q, idx) == {q._itmSize * idx, (q._itmSize * idx) % UINT16_MOD}

\* calls followed after the first copy outside the block
MaxAfter == 3

\* the memory from the block's address on, slot by slot, as far as a uint8_t
\* index reaches; the first heap.block bytes of it are the block
reached == 0 .. UINT8_MAX

\* the _itmSize bytes of slot idx lie in the block malloc() gave
inBlock(q, idx) == q._itmSize * idx + q._itmSize <= heap.block

\* the members of the object, in the order of their declaration
Members == <<"_itmQty", "_itmSize", "_itmData", "_itmCount", "_idxPut",
             "_idxTake", "_overwrite">>

\* the object after a copy that ran over its members lo .. hi and left bytes
\* of value v there
overwritten(q, lo, hi, v) ==
  LET hit(k) == lo <= k /\ k <= hi
  IN  [_itmQty    |-> IF hit(1) THEN v ELSE q._itmQty,
       _itmSize   |-> IF hit(2) THEN v ELSE q._itmSize,
       _itmData   |-> IF hit(3) THEN [k \in reached |-> v] ELSE q._itmData,
       _itmCount  |-> IF hit(4) THEN v ELSE q._itmCount,
       _idxPut    |-> IF hit(5) THEN v ELSE q._idxPut,
       _idxTake   |-> IF hit(6) THEN v ELSE q._idxTake,
       _overwrite |-> IF hit(7) THEN v # 0 ELSE q._overwrite]

\* a call can be made: the process was not killed inside one, and fewer than
\* MaxAfter calls followed the first copy outside the block
running == ret # "killed" /\ heap.after < MaxAfter

\* heap after a call; ub: the call copied outside the block
heapAfter(ub, block, wild) ==
  [block |-> block,
   after |-> IF ub \/ heap.after > 0 THEN heap.after + 1 ELSE 0,
   wild  |-> wild]

killed ==
  /\ ret' = "killed"
  /\ heap' = heapAfter(TRUE, heap.block, heap.wild)
  /\ UNCHANGED <<Q, itm, policy>>

\* "_idxPut++; _itmCount++; if (_idxPut == _itmQty) _idxPut = 0;" on the
\* members as the copy left them
afterCopy(q) ==
  [q EXCEPT !._idxPut = advance(q, q._idxPut),
            !._itmCount = u8(q._itmCount + 1)]

\* push(): the memcpy of line 145 writes slot _idxPut, the pop of line 137
\* copies slot _idxTake onto itself.  A memcpy on bytes outside the block is
\* undefined.  The process is killed in it; or it returns and the bytes lie
\* where the next copy from the slot finds them, or where nothing is known of
\* them; or the bytes written lie on the object, which then holds them in
\* some of its members when push() goes on to lines 146-148.
AllocPush ==
  LET r == push(Q, 0)
      evict == isFull(Q) /\ Q._overwrite
      copiesIn == /\ inBlock(Q, Q._idxPut)
                  /\ evict => inBlock(Q, Q._idxTake)
  IN  /\ running
      /\ IF r.ret = "false" \/ copiesIn
         THEN /\ callPush(0)
              /\ heap' = heapAfter(FALSE, heap.block, heap.wild)
         ELSE /\ lastOp' = "push"
              /\ arg' = 0
              /\ \/ killed
                 \/ /\ Q' = r.q
                    /\ ret' = r.ret
                    /\ \E w \in {heap.wild, TRUE} :
                         heap' = heapAfter(TRUE, heap.block, w)
                    /\ UNCHANGED <<itm, policy>>
                 \/ /\ ~inBlock(Q, Q._idxPut)
                    /\ \E lo \in 1 .. Len(Members) : \E hi \in lo .. Len(Members) :
                       \E v \in Items :
                         /\ Q' = afterCopy(overwritten(
                                   IF evict THEN popIntoItself(Q) ELSE Q,
                                   lo, hi, v))
                         /\ heap' = heapAfter(TRUE,
                                      IF lo <= 3 /\ 3 <= hi THEN 0 ELSE heap.block,
                                      heap.wild \/ (lo <= 3 /\ 2 <= hi))
                    /\ ret' = "true"
                    /\ UNCHANGED <<itm, policy>>
      /\ UNCHANGED <<peekVars, histVars, testVars, drain, conc>>

\* what a memcpy from slot _idxTake hands the caller: nothing when an item
\* has no bytes, the slot, or anything
copied(q, dst) ==
  IF q._itmSize = 0 THEN {dst}
  ELSE IF inBlock(q, q._idxTake) /\ ~heap.wild THEN {q._itmData[q._idxTake]}
  ELSE Items

\* pop(): the memcpy of line 169 reads slot _idxTake; outside the block the
\* process is killed in it, or the caller's buffer receives anything
AllocPop ==
  LET r == pop(Q, itm)
      ub == ~isEmpty(Q) /\ ~inBlock(Q, Q._idxTake)
  IN  /\ running
      /\ lastOp' = "pop"
      /\ arg' = arg
      /\ \/ /\ ub
            /\ killed
         \/ /\ Q' = r.q
            /\ ret' = r.ret
            /\ itm' \in (IF isEmpty(Q) THEN {itm} ELSE copied(Q, itm))
            /\ policy' = policy
            /\ heap' = heapAfter(ub, heap.block, heap.wild)
      /\ UNCHANGED <<peekVars, histVars, testVars, drain, conc>>

\* peek(): the memcpy of line 197 reads slot _idxTake
AllocPeek ==
  LET r == peek(Q, itm)
      ub == ~isEmpty(Q) /\ ~inBlock(Q, Q._idxTake)
  IN  /\ running
      /\ lastOp' = "peek"
      /\ arg' = arg
      /\ \/ /\ ub
            /\ killed
         \/ /\ Q' = r.q
            /\ ret' = r.ret
            /\ itm' \in (IF isEmpty(Q) THEN {itm} ELSE copied(Q, itm))
            /\ policy' = policy
            /\ heap' = heapAfter(ub, heap.block, heap.wild)
      /\ UNCHANGED <<peekVars, histVars, testVars, drain, conc>>

AllocClear ==
  /\ running
  /\ callClear
  /\ heap' = heapAfter(FALSE, heap.block, heap.wild)
  /\ UNCHANGED <<peekVars, histVars, testVars, drain, conc>>

AllocSetFullOverwrite(b) ==
  /\ running
  /\ callSetFullOverwrite(b)
  /\ heap' = heapAfter(FALSE, heap.block, heap.wild)
  /\ UNCHANGED <<peekVars, histVars, testVars, drain, conc>>

NextAlloc ==
  \/ AllocPush
  \/ AllocPop
  \/ AllocPeek
  \/ AllocClear
  \/ \E b \in BOOLEAN : AllocSetFullOverwrite(b)

\* --------------------------------------------------------------- SpecAny
\* The capacities of SpecBig and the capacity 0.  malloc(0) gives a block
\* with no slot in it, so every copy push(), pop() and peek() make on it runs
\* outside the block.
AnyQtys == BigQtys \cup {0}

InitAny ==
  /\ \E n \in AnyQtys :
       /\ Q = MD_CirQueue(n, ITEM_SIZE, [k \in reached |-> 0])
       /\ heap = [block |-> allocSize(n, ITEM_SIZE), after |-> 0, wild |-> FALSE]
  /\ itm = 0
  /\ ret = "void"
  /\ lastOp = "new"
  /\ arg = 0
  /\ policy = FALSE
  /\ peekAny = NoPeek
  /\ peekSame = NoPeek
  /\ pre = snapshot
  /\ histIdle
  /\ drain = NoDrain
  /\ conc = NoConc
  /\ testIdle

SpecAny == InitAny /\ [][NextAlloc]_vars

\* C11: for every capacity 0..255, isEmpty() is true exactly when the count is
\* 0 and isFull() exactly when the count is the capacity and the capacity is
\* not 0; so the two are never both true for a capacity >= 1, both are false
\* while 0 < count < capacity, and a queue of capacity 0 never reports full.
C11_EmptyFullPredicates ==
  /\ isEmpty(Q) <=> (Q._itmCount = 0)
  /\ isFull(Q) <=> (Q._itmCount = Q._itmQty /\ Q._itmQty # 0)
  /\ Q._itmQty >= 1 => ~(isEmpty(Q) /\ isFull(Q))
  /\ (0 < Q._itmCount /\ Q._itmCount < Q._itmQty) => (~isEmpty(Q) /\ ~isFull(Q))
  /\ Q._itmQty = 0 => ~isFull(Q)

C11_Witness ==
  /\ Q._itmQty = 0
  /\ lastOp = "pop" /\ ret = "itm"
  /\ Q._itmCount = 0
  /\ Q._idxTake = 1

\* C12: clear() sets the count and both indices to 0, so that isEmpty() is
\* true after it, and a second clear() right after it changes nothing.
C12_ClearEmptiesAndIsIdempotent ==
  lastOp = "clear"
    => /\ Q._itmCount = 0 /\ Q._idxPut = 0 /\ Q._idxTake = 0
       /\ isEmpty(Q)
       /\ clear(Q) = Q

C12_Witness ==
  /\ lastOp = "clear"
  /\ isFull(pre.Q)
  /\ pre.Q._idxTake # 0
  /\ pre.Q._itmQty >= 2

\* C13 as stated: in every state, a pop() made right after a push() of x (one
\* that returned true) hands back x.
C13_PushThenPopReturnsPushed ==
  (lastOp = "push" /\ ret = "true")
    => (pop(Q, itm).ret = "itm" /\ pop(Q, itm).itm = arg)

\* C13 amended: when the queue is empty, or has capacity 1 and overwrite on, a
\* push() of x returns true and a pop() made right after it hands back x.
C13_PushOnEmptyThenPopReturnsPushed ==
  (lastOp = "push"
     /\ (isEmpty(pre.Q) \/ (pre.Q._itmQty = 1 /\ pre.Q._overwrite)))
    => (ret = "true" /\ pop(Q, itm).ret = "itm" /\ pop(Q, itm).itm = arg)

C13_Witness ==
  /\ lastOp = "push" /\ ret = "true"
  /\ isEmpty(pre.Q)
  /\ pre.Q._idxPut # 0
  /\ pre.Q._itmData[pre.Q._idxPut] # arg
  /\ itm # arg

\* C14: the queue behaves as a bounded FIFO sequence, content(Q): a push() that
\* returns true appends its item (after dropping the head when the queue was
\* full), one that returns false changes nothing, pop() removes and hands back
\* the head, peek() hands back the head, clear() leaves the empty sequence.
C14_RefinesBoundedFifo ==
  LET old == content(pre.Q)
      new == content(Q)
  IN  /\ Len(new) <= Q._itmQty
      /\ (lastOp = "push" /\ ret = "true")
           => new = (IF Len(old) = Q._itmQty THEN Tail(old) ELSE old) \o <<arg>>
      /\ (lastOp = "push" /\ ret = "false")
           => (new = old /\ Len(old) = Q._itmQty)
      /\ (lastOp = "pop" /\ old # <<>>)
           => (ret = "itm" /\ itm = Head(old) /\ new = Tail(old))
      /\ (lastOp = "peek" /\ old # <<>>)
           => (ret = "itm" /\ itm = Head(old) /\ new = old)
      /\ (lastOp \in {"pop", "peek"} /\ old = <<>>)
           => (ret = "NULL" /\ new = old)
      /\ lastOp = "clear" => new = <<>>
      /\ lastOp = "setFullOverwrite" => new = old

C14_Witness ==
  /\ lastOp = "pop" /\ ret = "itm"
  /\ Len(content(pre.Q)) >= 2
  /\ pre.Q._idxTake = pre.Q._itmQty - 1
  /\ itm # content(Q)[1]
  /\ itm # pre.Q._itmData[0]

\* C16: setFullOverwrite(b) changes the overwrite flag to b and nothing else,
\* and a push() on a full queue overwrites exactly when the last
\* setFullOverwrite() call was given true (rejects when there was no call).
C16_SetterOnlySetsPolicy ==
  /\ lastOp = "setFullOverwrite"
       => Q = [pre.Q EXCEPT !._overwrite = (arg = 1)]
  /\ (lastOp = "push" /\ isFull(pre.Q))
       => (ret = (IF policy THEN "true" ELSE "false"))

C16_Witness ==
  /\ lastOp = "push" /\ ret = "true"
  /\ isFull(pre.Q) /\ policy
  /\ pre.Q._idxTake # 0

\* C19: clear() leaves the stored slots, the capacity, the item size and the
\* overwrite flag as they were, so the flag is still the policy last selected.
C19_ClearKeepsSlotsAndPolicy ==
  lastOp = "clear"
    => /\ Q._itmData = pre.Q._itmData
       /\ Q._itmQty = pre.Q._itmQty
       /\ Q._itmSize = pre.Q._itmSize
       /\ Q._overwrite = pre.Q._overwrite
       /\ Q._overwrite = policy

C19_Witness ==
  /\ lastOp = "clear"
  /\ pre.Q._overwrite
  /\ pre.Q._itmCount >= 2
  /\ Q._itmData[0] # Q._itmData[1]

\* C15: for capacities 1..255 both indices are slot indices, 0 .. capacity-1,
\* and putIndex is (takeIndex + count) mod capacity, so the two indices are
\* equal exactly when the queue is empty or full.
C15_IndicesWithinCapacity ==
  (1 <= Q._itmQty /\ Q._itmQty <= UINT8_MAX)
    => /\ Q._idxPut \in 0 .. Q._itmQty - 1
       /\ Q._idxTake \in 0 .. Q._itmQty - 1
       /\ Q._idxPut = (Q._idxTake + Q._itmCount) % Q._itmQty
       /\ (Q._idxPut = Q._idxTake) <=> (isEmpty(Q) \/ isFull(Q))

C15_Witness ==
  /\ Q._itmQty = UINT8_MAX
  /\ lastOp = "push" /\ ret = "true"
  /\ Q._idxPut = 1 /\ Q._idxTake = 2
  /\ Q._itmCount = UINT8_MAX - 1

\* ------------------------------------------------------------- SpecDrain
\* Any sequence of calls, and from whatever state they lead to, the drain loop
\* of CQ_Test: while (!Q.isEmpty()) Q.pop((uint8_t *)&n);
\* The loop is sequential code that keeps running, hence the weak fairness of
\* its two steps.
InitDrain ==
  /\ \E n \in Qtys : \E g \in Items :
       Q = MD_CirQueue(n, ITEM_SIZE, [k \in 0 .. n - 1 |-> g])
  /\ itm = 0
  /\ ret = "void"
  /\ lastOp = "new"
  /\ arg = 0
  /\ policy = FALSE
  /\ peekAny = NoPeek
  /\ peekSame = NoPeek
  /\ pre = snapshot
  /\ histIdle
  /\ procIdle
  /\ pc = "free"
  /\ i = 0
  /\ extra = 0
  /\ pushRets = <<>>

FreePush(x) ==
  /\ pc = "free"
  /\ callPush(x)
  /\ UNCHANGED <<peekVars, histVars, testVars, procVars>>

FreePop ==
  /\ pc = "free"
  /\ callPop
  /\ UNCHANGED <<peekVars, histVars, testVars, procVars>>

FreePeek ==
  /\ pc = "free"
  /\ callPeek
  /\ UNCHANGED <<peekVars, histVars, testVars, procVars>>

FreeClear ==
  /\ pc = "free"
  /\ callClear
  /\ UNCHANGED <<peekVars, histVars, testVars, procVars>>

FreeSetFullOverwrite(b) ==
  /\ pc = "free"
  /\ callSetFullOverwrite(b)
  /\ UNCHANGED <<peekVars, histVars, testVars, procVars>>

DrainStart ==
  /\ pc = "free"
  /\ pc' = "drain"
  /\ drain' = [from |-> Q._itmCount, pops |-> 0]
  /\ UNCHANGED <<callVars, peekVars, histVars, i, extra, pushRets, conc, heap>>

\* !Q.isEmpty(): the body runs (the pops made fit a uint8_t count)
DrainPop ==
  /\ pc = "drain"
  /\ ~isEmpty(Q)
  /\ drain.pops < UINT8_MOD
  /\ callPop
  /\ drain' = [drain EXCEPT !.pops = @ + 1]
  /\ UNCHANGED <<peekVars, histVars, testVars, conc, heap>>

\* Q.isEmpty(): the loop is left
DrainExit ==
  /\ pc = "drain"
  /\ isEmpty(Q)
  /\ pc' = "done"
  /\ UNCHANGED <<callVars, peekVars, histVars, i, extra, pushRets, procVars>>

NextDrain ==
  \/ \E x \in Items : FreePush(x)
  \/ FreePop
  \/ FreePeek
  \/ FreeClear
  \/ \E b \in BOOLEAN : FreeSetFullOverwrite(b)
  \/ DrainStart
  \/ DrainPop
  \/ DrainExit

SpecDrain ==
  InitDrain /\ [][NextDrain]_vars /\ WF_vars(DrainPop) /\ WF_vars(DrainExit)

\* C17: started in any reachable state, the drain loop comes to its end; it
\* makes exactly as many pops as the count it started from, each of them
\* handing back an item, and leaves isEmpty() true and isFull() false.
C17_DrainLoopTerminates ==
  /\ [](pc \in {"drain", "done"}
          => /\ drain.pops + Q._itmCount = drain.from
             /\ drain.pops > 0 => ret = "itm")
  /\ [](pc = "done"
          => (drain.pops = drain.from /\ isEmpty(Q) /\ ~isFull(Q)))
  /\ (pc = "drain") ~> (pc = "done")

C17_Witness ==
  /\ pc = "done"
  /\ Q._itmQty >= 2
  /\ drain.from = Q._itmQty
  /\ drain.pops = drain.from
  /\ Q._idxTake = 1

\* -------------------------------------------------------------- SpecAlloc
\* The calls on queues built with item sizes up to the largest a uint16_t
\* parameter carries.
ItemSizes == {0, 1, ITEM_SIZE, UINT16_MOD \div 2, UINT16_MOD - 1}

InitAlloc ==
  /\ \E n \in Qtys : \E size \in ItemSizes :
       /\ Q = MD_CirQueue(n, size, [k \in reached |-> 0])
       /\ heap = [block |-> allocSize(n, size), after |-> 0, wild |-> FALSE]
  /\ itm = 0
  /\ ret = "void"
  /\ lastOp = "new"
  /\ arg = 0
  /\ policy = FALSE
  /\ peekAny = NoPeek
  /\ peekSame = NoPeek
  /\ pre = snapshot
  /\ histIdle
  /\ drain = NoDrain
  /\ conc = NoConc
  /\ testIdle

SpecAlloc == InitAlloc /\ [][NextAlloc]_vars

\* C18: the block the constructor allocates has capacity * itemSize bytes, so
\* the itemSize bytes at the offset of every slot index < capacity lie in it.
C18_AllocationHoldsEverySlot ==
  /\ allocSize(Q._itmQty, Q._itmSize) = Q._itmQty * Q._itmSize
  /\ \A idx \in 0 .. Q._itmQty - 1 : \A off \in slotOffsets(Q, idx) :
       off + Q._itmSize <= allocSize(Q._itmQty, Q._itmSize)

\* --------------------------------------------------------------- SpecConc
\* A producer calling push() and a consumer calling pop() on one object, the
\* overwrite setting chosen before they start.  In mode "atomic" each call is
\* one step.  In mode "steps" a call is the sequence of its loads and stores
\* of _itmCount, _idxPut and _idxTake and its slot copy, and the steps of the
\* two callers interleave.  _itmQty, _itmSize, _itmData and _overwrite are
\* written by neither caller and are read where they are used.
\*
\* The two callers race on the fields, which the language leaves undefined,
\* so a step takes every form a build gives it:
\*   - x++ and x-- are a load into a register and a store, and the updates of
\*     the index and of the count that follow a copy are done in either
\*     order, or one inside the other;
\*   - a field read twice with no call in between is loaded twice or once
\*     (isFull()'s two reads of _itmCount; the wrap test after x++);
\*   - x++ followed by "if (x == _itmQty) x = 0" stores twice or only the
\*     final value;
\*   - in the pop() that push() makes, source and destination are the same
\*     expression: loaded twice and copied, or loaded once, the copy onto
\*     itself dropped and what isFull() loaded still in the registers.
\* conc.out is the number of items in the queue by the calls' own account:
\* pushes that returned true, less pops that handed back an item (those a
\* push() makes to overwrite included).
MaxCalls == 2

Threads == {"prod", "cons"}

NoRegs == [t \in Threads |-> 0]

NoChain == [t \in Threads |-> "--"]

InitConc ==
  /\ \E n \in Qtys : \E b \in BOOLEAN :
       \E g \in Items :
         /\ Q = setFullOverwrite(
                  MD_CirQueue(n, ITEM_SIZE, [k \in 0 .. n - 1 |-> g]), b)
         /\ policy = b
  /\ itm = 0
  /\ ret = "void"
  /\ lastOp = "new"
  /\ arg = 0
  /\ peekAny = NoPeek
  /\ peekSame = NoPeek
  /\ pre = snapshot
  /\ histIdle
  /\ testIdle
  /\ drain = NoDrain
  /\ heap = NoHeap
  /\ \E m \in {"atomic", "steps"} :
       conc = [mode |-> m,
               pc   |-> [t \in Threads |-> "idle"],
               ix   |-> NoChain,
               ct   |-> NoChain,
               ri   |-> NoRegs,
               rc   |-> NoRegs,
               dst  |-> 0,
               keep |-> FALSE,
               out  |-> 0,
               pops |-> 0]

concRest == <<peekVars, pushLog, popLog, nEvict, cleared, testVars, drain, heap>>

\* mode "atomic"
AtomicPush ==
  /\ conc.mode = "atomic"
  /\ nPush < MaxCalls
  /\ callPush(0)
  /\ nPush' = nPush + 1
  /\ conc' = [conc EXCEPT !.out =
                IF ret' = "true" THEN (IF isFull(Q) THEN @ ELSE @ + 1) ELSE @]
  /\ UNCHANGED concRest

AtomicPop ==
  /\ conc.mode = "atomic"
  /\ conc.pops < MaxCalls
  /\ callPop
  /\ conc' = [conc EXCEPT !.pops = @ + 1,
                          !.out = IF ret' = "itm" THEN @ - 1 ELSE @]
  /\ UNCHANGED <<nPush, concRest>>

\* mode "steps": thread t is at position pos
at(t, pos) == conc.mode = "steps" /\ conc.pc[t] = pos

\* thread t is past the copy of call (pop or save) and its index update, or
\* its count update, is at pos
atIndex(t, call, pos) == at(t, call) /\ conc.ix[t] = pos

atCount(t, call, pos) == at(t, call) /\ conc.ct[t] = pos

\* where a pop() returns to
afterPop(t) == IF t = "prod" THEN "save_dst" ELSE "idle"

\* push(): isFull(), the first read of "_itmCount != 0 && _itmCount == _itmQty"
PushCheck ==
  /\ at("prod", "idle")
  /\ nPush < MaxCalls
  /\ nPush' = nPush + 1
  /\ lastOp' = "push"
  /\ arg' = 0
  /\ conc' = IF Q._itmCount = 0
             THEN [conc EXCEPT !.pc["prod"] = "save_dst"]
             ELSE [conc EXCEPT !.pc["prod"] = "push_full",
                               !.rc["prod"] = Q._itmCount]
  /\ UNCHANGED <<Q, itm, ret, policy, concRest>>

\* isFull(), the second read of _itmCount; then if (_overwrite) ... else
\* return(false)
PushFull ==
  /\ at("prod", "push_full")
  /\ \E c \in {Q._itmCount, conc.rc["prod"]} :
       IF c = Q._itmQty
       THEN IF Q._overwrite
            THEN /\ conc' = [conc EXCEPT !.pc["prod"] = "pop_dst",
                                         !.rc["prod"] = c]
                 /\ ret' = ret
            ELSE /\ conc' = [conc EXCEPT !.pc["prod"] = "idle",
                                         !.rc["prod"] = 0]
                 /\ ret' = "false"
       ELSE /\ conc' = [conc EXCEPT !.pc["prod"] = "save_dst",
                                    !.rc["prod"] = 0]
            /\ ret' = ret
  /\ UNCHANGED <<Q, itm, lastOp, arg, policy, nPush, concRest>>

\* pop(_itmData + (_idxTake * _itmSize)): the argument of the call
PushEvictDst ==
  /\ at("prod", "pop_dst")
  /\ conc' = [conc EXCEPT !.pc["prod"] = "pop_check",
                          !.dst = Q._idxTake,
                          !.ri["prod"] = Q._idxTake]
  /\ UNCHANGED <<callVars, nPush, concRest>>

\* memcpy(_itmData + (_itmSize * _idxPut), itm, _itmSize): the address
SaveDst ==
  /\ at("prod", "save_dst")
  /\ conc' = [conc EXCEPT !.pc["prod"] = "save_copy",
                          !.ri["prod"] = Q._idxPut]
  /\ UNCHANGED <<callVars, nPush, concRest>>

\* memcpy(...): the copy
SaveCopy ==
  /\ at("prod", "save_copy")
  /\ Q' = IF conc.ri["prod"] \in DOMAIN Q._itmData
          THEN [Q EXCEPT !._itmData[conc.ri["prod"]] = arg]
          ELSE Q
  /\ conc' = [conc EXCEPT !.pc["prod"] = "save_tail",
                          !.ix["prod"] = "ld",
                          !.ct["prod"] = "ld",
                          !.ri["prod"] = 0]
  /\ UNCHANGED <<itm, ret, lastOp, arg, policy, nPush, concRest>>

\* _idxPut++
SaveLoadPut ==
  /\ atIndex("prod", "save_tail", "ld")
  /\ conc' = [conc EXCEPT !.ri["prod"] = Q._idxPut, !.ix["prod"] = "st"]
  /\ UNCHANGED <<callVars, nPush, concRest>>

\* the store of _idxPut++.  Only the producer reads or writes _idxPut, so
\* here the forms a build may give the update and the test come to the same
SaveStorePut ==
  /\ atIndex("prod", "save_tail", "st")
  /\ Q' = [Q EXCEPT !._idxPut = u8(conc.ri["prod"] + 1)]
  /\ conc' = [conc EXCEPT !.ri["prod"] = 0, !.ix["prod"] = "wrap"]
  /\ UNCHANGED <<itm, ret, lastOp, arg, policy, nPush, concRest>>

\* if (_idxPut == _itmQty)
SaveWrapTest ==
  /\ atIndex("prod", "save_tail", "wrap")
  /\ conc' = [conc EXCEPT !.ix["prod"] =
                IF Q._idxPut = Q._itmQty THEN "zero" ELSE "done"]
  /\ UNCHANGED <<callVars, nPush, concRest>>

\* _idxPut = 0
SaveWrapStore ==
  /\ atIndex("prod", "save_tail", "zero")
  /\ Q' = [Q EXCEPT !._idxPut = 0]
  /\ conc' = [conc EXCEPT !.ix["prod"] = "done"]
  /\ UNCHANGED <<itm, ret, lastOp, arg, policy, nPush, concRest>>

\* _itmCount++
SaveLoadCount ==
  /\ atCount("prod", "save_tail", "ld")
  /\ conc' = [conc EXCEPT !.rc["prod"] = Q._itmCount, !.ct["prod"] = "st"]
  /\ UNCHANGED <<callVars, nPush, concRest>>

SaveStoreCount ==
  /\ atCount("prod", "save_tail", "st")
  /\ Q' = [Q EXCEPT !._itmCount = u8(conc.rc["prod"] + 1)]
  /\ conc' = [conc EXCEPT !.rc["prod"] = 0, !.ct["prod"] = "done"]
  /\ UNCHANGED <<itm, ret, lastOp, arg, policy, nPush, concRest>>

\* return(true)
SaveReturn ==
  /\ atIndex("prod", "save_tail", "done")
  /\ atCount("prod", "save_tail", "done")
  /\ ret' = "true"
  /\ conc' = [conc EXCEPT !.pc["prod"] = "idle",
                          !.ix["prod"] = "--",
                          !.ct["prod"] = "--",
                          !.out = @ + 1]
  /\ UNCHANGED <<Q, itm, lastOp, arg, policy, nPush, concRest>>

\* the consumer calls pop(&n)
PopCall ==
  /\ at("cons", "idle")
  /\ conc.pops < MaxCalls
  /\ lastOp' = "pop"
  /\ conc' = [conc EXCEPT !.pc["cons"] = "pop_check", !.pops = @ + 1]
  /\ UNCHANGED <<Q, itm, ret, arg, policy, nPush, concRest>>

\* pop() as thread t runs it: the consumer's call, or the one push() makes.
\* if (isEmpty()) return(NULL); in push() on a fresh load of _itmCount or on
\* the value isFull() loaded
PopCheck(t) ==
  /\ at(t, "pop_check")
  /\ \E c \in {Q._itmCount} \cup
              (IF t = "prod" THEN {conc.rc[t]} ELSE {}) :
       IF c = 0
       THEN /\ conc' = [conc EXCEPT !.pc[t] = afterPop(t),
                                    !.ri[t] = 0,
                                    !.rc[t] = 0]
            /\ ret' = IF t = "prod" THEN ret ELSE "NULL"
       ELSE /\ conc' = [conc EXCEPT !.pc[t] = "pop_src"]
            /\ ret' = ret
  /\ UNCHANGED <<Q, itm, lastOp, arg, policy, nPush, concRest>>

\* memcpy(itm, _itmData + (_itmSize * _idxTake), _itmSize): the address; in
\* push() a fresh load of _idxTake, or the one loaded for the destination,
\* the copy of a slot onto itself then dropped
PopSrc(t) ==
  /\ at(t, "pop_src")
  /\ \/ conc' = [conc EXCEPT !.pc[t] = "pop_copy",
                             !.ri[t] = Q._idxTake]
     \/ /\ t = "prod"
        /\ conc' = [conc EXCEPT !.pc[t] = "pop_tail",
                                !.ix[t] = "ld",
                                !.ct[t] = "ld",
                                !.keep = TRUE]
  /\ UNCHANGED <<callVars, nPush, concRest>>

\* what a copy from slot idx reads: the slot, or, when the race has driven
\* the index past the block, whatever lies there
slotRead(q, idx) ==
  IF idx \in DOMAIN q._itmData THEN {q._itmData[idx]} ELSE Items

\* memcpy(...): the copy, into the caller's buffer, or, when push() calls,
\* into the slot whose address push() worked out before the call; a copy to
\* an address past the block leaves the block as it is
PopCopy(t) ==
  /\ at(t, "pop_copy")
  /\ \E v \in slotRead(Q, conc.ri[t]) :
       IF t = "prod"
       THEN /\ itm' = itm
            /\ Q' = IF conc.dst \in DOMAIN Q._itmData
                    THEN [Q EXCEPT !._itmData[conc.dst] = v]
                    ELSE Q
       ELSE /\ itm' = v
            /\ Q' = Q
  /\ conc' = [conc EXCEPT !.pc[t] = "pop_tail",
                          !.ix[t] = "ld",
                          !.ct[t] = "ld",
                          !.ri[t] = 0,
                          !.rc[t] = 0,
                          !.dst = IF t = "prod" THEN 0 ELSE @]
  /\ UNCHANGED <<ret, lastOp, arg, policy, nPush, concRest>>

\* the registers of thread t still hold what it loaded before the copy
kept(t) == t = "prod" /\ conc.keep

\* _idxTake++
PopLoadTake(t) ==
  /\ atIndex(t, "pop_tail", "ld")
  /\ \E r \in {Q._idxTake} \cup (IF kept(t) THEN {conc.ri[t]} ELSE {}) :
       conc' = [conc EXCEPT !.ri[t] = r, !.ix[t] = "st"]
  /\ UNCHANGED <<callVars, nPush, concRest>>

\* the store of _idxTake++, alone or with "if (_idxTake == _itmQty)
\* _idxTake = 0" folded into it
PopStoreTake(t) ==
  /\ atIndex(t, "pop_tail", "st")
  /\ LET v == u8(conc.ri[t] + 1)
     IN  \/ /\ Q' = [Q EXCEPT !._idxTake = v]
            /\ conc' = [conc EXCEPT !.ri[t] = v, !.ix[t] = "wrap"]
         \/ /\ Q' = [Q EXCEPT !._idxTake = IF v = Q._itmQty THEN 0 ELSE v]
            /\ conc' = [conc EXCEPT !.ri[t] = 0, !.ix[t] = "done"]
  /\ UNCHANGED <<itm, ret, lastOp, arg, policy, nPush, concRest>>

\* if (_idxTake == _itmQty): on a fresh load or on the value just stored
PopWrapTest(t) ==
  /\ atIndex(t, "pop_tail", "wrap")
  /\ \E v \in {Q._idxTake, conc.ri[t]} :
       conc' = [conc EXCEPT !.ri[t] = 0,
                            !.ix[t] = IF v = Q._itmQty THEN "zero" ELSE "done"]
  /\ UNCHANGED <<callVars, nPush, concRest>>

\* _idxTake = 0
PopWrapStore(t) ==
  /\ atIndex(t, "pop_tail", "zero")
  /\ Q' = [Q EXCEPT !._idxTake = 0]
  /\ conc' = [conc EXCEPT !.ix[t] = "done"]
  /\ UNCHANGED <<itm, ret, lastOp, arg, policy, nPush, concRest>>

\* _itmCount--
PopLoadCount(t) ==
  /\ atCount(t, "pop_tail", "ld")
  /\ \E c \in {Q._itmCount} \cup (IF kept(t) THEN {conc.rc[t]} ELSE {}) :
       conc' = [conc EXCEPT !.rc[t] = c, !.ct[t] = "st"]
  /\ UNCHANGED <<callVars, nPush, concRest>>

PopStoreCount(t) ==
  /\ atCount(t, "pop_tail", "st")
  /\ Q' = [Q EXCEPT !._itmCount = u8(conc.rc[t] - 1)]
  /\ conc' = [conc EXCEPT !.rc[t] = 0, !.ct[t] = "done"]
  /\ UNCHANGED <<itm, ret, lastOp, arg, policy, nPush, concRest>>

\* return (itm)
PopReturn(t) ==
  /\ atIndex(t, "pop_tail", "done")
  /\ atCount(t, "pop_tail", "done")
  /\ ret' = IF t = "prod" THEN ret ELSE "itm"
  /\ conc' = [conc EXCEPT !.pc[t] = afterPop(t),
                          !.ix[t] = "--",
                          !.ct[t] = "--",
                          !.dst = IF t = "prod" THEN 0 ELSE @,
                          !.keep = IF t = "prod" THEN FALSE ELSE @,
                          !.out = @ - 1]
  /\ UNCHANGED <<Q, itm, lastOp, arg, policy, nPush, concRest>>

NextConc ==
  \/ AtomicPush
  \/ AtomicPop
  \/ PushCheck
  \/ PushFull
  \/ PushEvictDst
  \/ SaveDst
  \/ SaveCopy
  \/ SaveLoadPut
  \/ SaveStorePut
  \/ SaveWrapTest
  \/ SaveWrapStore
  \/ SaveLoadCount
  \/ SaveStoreCount
  \/ SaveReturn
  \/ PopCall
  \/ \E t \in Threads : PopCheck(t)
  \/ \E t \in Threads : PopSrc(t)
  \/ \E t \in Threads : PopCopy(t)
  \/ \E t \in Threads : PopLoadTake(t)
  \/ \E t \in Threads : PopStoreTake(t)
  \/ \E t \in Threads : PopWrapTest(t)
  \/ \E t \in Threads : PopWrapStore(t)
  \/ \E t \in Threads : PopLoadCount(t)
  \/ \E t \in Threads : PopStoreCount(t)
  \/ \E t \in Threads : PopReturn(t)

SpecConc == InitConc /\ [][NextConc]_vars

\* C20: when every call is one step, the count is always the number of items
\* the calls have put in and not taken out; the witness is the state the
\* interleaved steps reach, both calls finished, in which it is not.
C20_AtomicCallsKeepCount ==
  conc.mode = "atomic" => Q._itmCount = conc.out

C20_Witness ==
  /\ conc.mode = "steps"
  /\ conc.pc["prod"] = "idle" /\ conc.pc["cons"] = "idle"
  /\ Q._itmCount # conc.out
  /\ ~Q._overwrite

TypeOK ==
  /\ Q._itmQty \in Qtys \cup {0, QUEUE_SIZE, UINT8_MAX}
  /\ Q._itmCount \in 0 .. UINT8_MOD - 1
  /\ Q._idxPut \in 0 .. UINT8_MOD - 1
  /\ Q._idxTake \in 0 .. UINT8_MOD - 1
  /\ Q._overwrite \in BOOLEAN
  /\ itm \in Nat
  /\ ret \in {"true", "false", "itm", "NULL", "void", "killed"}
====
